---------------------------- MODULE Spec2Model ----------------------------
(***************************************************************************)
(* Model of the three utility scripts of claude-batch-server:              *)
(*   validate-image-e2e-test.py  the static pattern auditor   (SpecAudit)  *)
(*   test-image-analysis.py      the image generator/validator (SpecImage) *)
(*   debug-auth-test.py          the authentication probe      (SpecAuth)  *)
(* The scripts share no state; each has its own specification.  The       *)
(* variables of the two scripts a specification does not run stay at      *)
(* their idle values.                                                      *)
(***************************************************************************)
EXTENDS Integers, Sequences, FiniteSets, TLC

(***************************************************************************)
(* Bounds of the model.                                                    *)
(***************************************************************************)
\* How many deviations from a fully valid set of input files the auditor
\* is started with (a pattern absent from a file, a file missing,
\* unreadable, empty, or an unusual image size each count as one).
MaxFaults == 2

VARIABLES
    \* ---- auditor: the files it inspects (never written by the script)
    test_file,          \* ImageAnalysisE2ETests.cs
    working_test,       \* ComplexE2ETests.cs, the reference file
    image_file,         \* test-image.png as the auditor sees it
    csproj_file,        \* ClaudeBatchServer.IntegrationTests.csproj
    env_file,           \* .env
    \* ---- auditor: the program
    a_pc,               \* "call" | "loop" | "done"
    sec,                \* the section main is at, 1..6, 7 = the report
    idx,                \* position of a section's for loop in its list
    content,            \* the text a section's loop scans
    all_found,          \* the loop's accumulator (all_patterns_found, ...)
    validation_results, \* main's list of (name, result)
    out,                \* what was printed, in order
    exit_code           \* -1 while running, then sys.exit's argument

auditVars == <<test_file, working_test, image_file, csproj_file, env_file,
               a_pc, sec, idx, content, all_found, validation_results,
               out, exit_code>>

VARIABLES
    \* ---- image script: its environment
    pil_available,      \* whether "from PIL import ..." succeeds
    test_dir_exists,    \* the IntegrationTests directory
    disk_image,         \* test-image.png on disk
    \* ---- image script: the program
    i_pc,               \* "import" | "setup" | "image" | "analyze" | "finish" | "done"
    analysis,           \* analyze_test_image's result in this run, or "none"
    create_calls,       \* how often create_test_image was called, all runs
    runs,               \* runs of the script started after the first
    img_exit            \* -1 while running, then the process's exit code

imageVars == <<pil_available, test_dir_exists, disk_image, i_pc, analysis,
               create_calls, runs, img_exit>>

VARIABLES
    \* ---- authentication probe
    h_pc,               \* position in test_auth
    posts,              \* POST /auth/login requests sent
    gets,               \* GET /repositories requests sent
    login_response,     \* what requests.post returned
    token,              \* login_result.get('token')
    headers,            \* the Authorization header of the GET
    repo_response,      \* what requests.get returned
    h_out               \* what was printed, in order

authVars == <<h_pc, posts, gets, login_response, token, headers,
              repo_response, h_out>>

vars == <<auditVars, imageVars, authVars>>

(***************************************************************************)
(* Files and text.  A text is modelled by the set of search keys that      *)
(* occur in it: a regular expression of the auditor's lists is in the set  *)
(* when re.search finds it in the text, a package or variable name when    *)
(* it is a substring.  Other stands for text that matches no key, so that  *)
(* {} is the empty string and {Other} a non-empty text without a match.    *)
(***************************************************************************)
Other == "<other text>"

\* validate_test_structure's list, in order (pattern, description)
patterns_to_check ==
    << [re |-> "WebApplicationFactory<Program>", description |-> "WebApplicationFactory usage"],
       [re |-> "IClassFixture<WebApplicationFactory<Program>>", description |-> "IClassFixture implementation"],
       [re |-> "\\.env", description |-> "Environment file loading"],
       [re |-> "TEST_USERNAME.*TEST_PASSWORD", description |-> "Test credentials pattern"],
       [re |-> "LoginRequest", description |-> "Authentication request"],
       [re |-> "PostAsJsonAsync.*auth/login", description |-> "Login endpoint usage"],
       [re |-> "CreateAuthenticatedClient", description |-> "Authenticated client creation"],
       [re |-> "Authorization.*Bearer", description |-> "Bearer token authentication"],
       [re |-> "MultipartFormDataContent", description |-> "Image upload pattern"],
       [re |-> "MediaTypeHeaderValue.*image/png", description |-> "Image content type"],
       [re |-> "PostAsync.*images", description |-> "Image upload endpoint"],
       [re |-> "JobStatusResponse", description |-> "Job status checking"],
       [re |-> "\\.Should\\(\\)", description |-> "FluentAssertions usage"] >>

\* validate_image_specific_logic's list
image_patterns ==
    << [re |-> "test-image\\.png", description |-> "Test image file reference"],
       [re |-> "File\\.ReadAllBytesAsync", description |-> "Image file reading"],
       [re |-> "ByteArrayContent.*imageBytes", description |-> "Image byte array handling"],
       [re |-> "image.*analysis.*prompt", description |-> "Image analysis prompt"],
       [re |-> "shapes.*colors.*text", description |-> "Expected analysis elements"],
       [re |-> "rectangle.*circle.*triangle", description |-> "Specific shape detection"],
       [re |-> "blue.*red.*green", description |-> "Color detection"],
       [re |-> "Output.*Should.*Contain", description |-> "Output validation assertions"],
       [re |-> "Length.*Should.*BeGreaterThan", description |-> "Response length validation"] >>

\* validate_authentication_pattern's list (patterns without description)
auth_patterns ==
    << [re |-> "var username = Environment\\.GetEnvironmentVariable\\(\"TEST_USERNAME\"\\);", description |-> "Auth pattern"],
       [re |-> "var password = Environment\\.GetEnvironmentVariable\\(\"TEST_PASSWORD\"\\);", description |-> "Auth pattern"],
       [re |-> "var loginRequest = new LoginRequest", description |-> "Auth pattern"],
       [re |-> "Username = username,\\s*Password = password", description |-> "Auth pattern"],
       [re |-> "await _client\\.PostAsJsonAsync\\(\"/auth/login\"", description |-> "Auth pattern"],
       [re |-> "CreateAuthenticatedClient\\(loginResult\\.Token\\)", description |-> "Auth pattern"] >>

required_packages ==
    << [re |-> "Microsoft.AspNetCore.Mvc.Testing", description |-> "package"],
       [re |-> "FluentAssertions", description |-> "package"],
       [re |-> "xunit", description |-> "package"],
       [re |-> "DotNetEnv", description |-> "package"] >>

required_vars ==
    << [re |-> "TEST_USERNAME", description |-> "variable"],
       [re |-> "TEST_PASSWORD", description |-> "variable"] >>

Keys(list) == {list[i].re : i \in 1..Len(list)}

StructureKeys == Keys(patterns_to_check)
ImageKeys     == Keys(image_patterns)
AuthKeys      == Keys(auth_patterns)
TargetKeys    == StructureKeys \cup ImageKeys \cup AuthKeys
PackageKeys   == Keys(required_packages)
VarKeys       == Keys(required_vars)

\* A text in which the first expression of a pair is found also contains a
\* match of the second (the second matches a part of every match of the first).
Implied ==
    { <<"IClassFixture<WebApplicationFactory<Program>>", "WebApplicationFactory<Program>">>,
      <<"var loginRequest = new LoginRequest", "LoginRequest">>,
      <<"await _client\\.PostAsJsonAsync\\(\"/auth/login\"", "PostAsJsonAsync.*auth/login">>,
      <<"CreateAuthenticatedClient\\(loginResult\\.Token\\)", "CreateAuthenticatedClient">> }

WellFormedText(t) == \A p \in Implied : p[1] \in t => p[2] \in t


(***************************************************************************)
(* Files of the auditor.  readable is FALSE when open() or the UTF-8       *)
(* decoding raises; a file that does not exist cannot be read either.      *)
(***************************************************************************)
MissingFile    == [exists |-> FALSE, readable |-> FALSE, text |-> {}]
UnreadableFile == [exists |-> TRUE, readable |-> FALSE, text |-> {}]
TextFile(t)    == [exists |-> TRUE, readable |-> TRUE, text |-> t]

\* the image is only stat'ed by the auditor
MissingImage   == [exists |-> FALSE, size |-> 0]
ImageOfSize(n) == [exists |-> TRUE, size |-> n]

\* thresholds of the two size warnings of validate_test_image_exists
SmallWarning == 1000
LargeWarning == 50000

\* the subsets of K with at most k elements
Drops(K, k) == {{f[i] : i \in 1..k} : f \in [1..k -> K]} \cup {{}}

\* the states of a text file whose keys are K, within k faults
TextFileStates(K, k) ==
    IF k < 1 THEN {TextFile(K \cup {Other})}
    ELSE {MissingFile, UnreadableFile, TextFile({}), TextFile({Other})}
         \cup {TextFile((K \ S) \cup {Other}) : S \in Drops(K, k)}

TextFaults(f, K) ==
    IF ~f.exists \/ ~f.readable \/ f.text \subseteq {Other} THEN 1
    ELSE Cardinality(K \ f.text)

ImageFileStates(k) ==
    IF k < 1 THEN {ImageOfSize(SmallWarning)}
    ELSE {MissingImage} \cup
         {ImageOfSize(n) : n \in {SmallWarning - 1, SmallWarning, LargeWarning + 1}}

ImageFaults(f) == IF f.exists /\ f.size = SmallWarning THEN 0 ELSE 1

(***************************************************************************)
(* Library calls.                                                          *)
(***************************************************************************)
None == [ok |-> FALSE, text |-> {}]

\* mutant: the existence test always succeeds
os_path_exists_unchecked(f) == TRUE

os_path_exists(f) == f.exists

\* read_file: the text, or None after printing the error
read_file(f) == IF f.exists /\ f.readable THEN [ok |-> TRUE, text |-> f.text] ELSE None

\* mutant: only None is rejected ("if c is None")
Falsy_none_only(c) == ~c.ok

\* Python's "not c" for c a str or None: None and "" are both falsy
Falsy(c) == ~c.ok \/ c.text = {}

\* re.search(pattern, text, re.IGNORECASE | re.DOTALL) is not None
re_search(pattern, text) == pattern \in text

\* name in text
Contains(text, name) == name \in text

(***************************************************************************)
(* Printed lines.                                                          *)
(***************************************************************************)
Line(kind, s, item, ok) == [kind |-> kind, sec |-> s, item |-> item, ok |-> ok]

SectionName(s) ==
    CASE s = 1 -> "Test Structure"
      [] s = 2 -> "Image Logic"
      [] s = 3 -> "Test Image File"
      [] s = 4 -> "Authentication"
      [] s = 5 -> "Dependencies"
      [] s = 6 -> "Environment"

\* the list a section's for loop walks
SectionList(s) ==
    CASE s = 1 -> patterns_to_check
      [] s = 2 -> image_patterns
      [] s = 4 -> auth_patterns
      [] s = 5 -> required_packages
      [] s = 6 -> required_vars
      [] OTHER -> << >>

\* the line read_file prints when it fails on f
ReadError(s, name, f) ==
    IF read_file(f).ok THEN << >> ELSE << Line("read_error", s, name, FALSE) >>

(***************************************************************************)
(* The auditor, validate-image-e2e-test.py.                                *)
(***************************************************************************)
NoContent == {}

\* what no step of the auditor changes: its input files, the other scripts
AuditFrame ==
    UNCHANGED <<test_file, working_test, image_file, csproj_file, env_file,
                imageVars, authVars>>

\* a section function returns `result` to main, which appends it
SectionReturns(s, result, printed) ==
    /\ validation_results' = Append(validation_results, <<SectionName(s), result>>)
    /\ out' = out \o printed
    /\ sec' = s + 1
    /\ a_pc' = "call"
    /\ idx' = 0
    /\ content' = NoContent
    /\ all_found' = TRUE
    /\ exit_code' = exit_code
    /\ AuditFrame

\* a section function reaches its for loop over `text`
SectionLoops(s, text, printed) ==
    /\ out' = out \o printed
    /\ a_pc' = "loop"
    /\ idx' = 1
    /\ content' = text
    /\ all_found' = TRUE
    /\ UNCHANGED <<sec, validation_results, exit_code>>
    /\ AuditFrame

\* mutant: the target's content is not tested
BothNeeded_reference_only(test_content, working_content) ==
    Falsy(working_content)

\* line 39 and line 137: if not test_content or not working_content
BothNeeded(test_content, working_content) ==
    Falsy(test_content) \/ Falsy(working_content)

\* lines 21-60: validate_test_structure up to its loop
validate_test_structure ==
    /\ a_pc = "call" /\ sec = 1
    /\ IF ~os_path_exists(test_file)
         THEN SectionReturns(1, FALSE, << Line("missing", 1, "test_file", FALSE) >>)
       ELSE IF ~os_path_exists(working_test)
         THEN SectionReturns(1, FALSE, << Line("missing", 1, "working_test", FALSE) >>)
       ELSE LET test_content    == read_file(test_file)
                working_content == read_file(working_test)
                printed == ReadError(1, "test_file", test_file)
                           \o ReadError(1, "working_test", working_test)
            IN  IF BothNeeded(test_content, working_content)
                  THEN SectionReturns(1, FALSE, printed)
                  ELSE SectionLoops(1, test_content.text, printed)

\* lines 71-94: validate_image_specific_logic up to its loop
validate_image_specific_logic ==
    /\ a_pc = "call" /\ sec = 2
    /\ LET test_content == read_file(test_file)
           printed == ReadError(2, "test_file", test_file)
       IN  IF Falsy(test_content)
             THEN SectionReturns(2, FALSE, printed)
             ELSE SectionLoops(2, test_content.text, printed)

\* lines 105-125: validate_test_image_exists, the whole function
validate_test_image_exists ==
    /\ a_pc = "call" /\ sec = 3
    /\ IF ~os_path_exists(image_file)
         THEN SectionReturns(3, FALSE, << Line("missing", 3, "image_path", FALSE) >>)
         ELSE LET file_size == image_file.size
                  small == IF file_size < SmallWarning
                             THEN << Line("warning", 3, "seems small", TRUE) >> ELSE << >>
                  large == IF file_size > LargeWarning
                             THEN << Line("warning", 3, "seems large", TRUE) >> ELSE << >>
              IN  SectionReturns(3, TRUE,
                      << Line("exists", 3, "image_path", TRUE) >> \o small \o large)

\* lines 127-151: validate_authentication_pattern up to its loop
validate_authentication_pattern ==
    /\ a_pc = "call" /\ sec = 4
    /\ LET test_content    == read_file(test_file)
           working_content == read_file(working_test)
           printed == ReadError(4, "test_file", test_file)
                      \o ReadError(4, "working_test", working_test)
       IN  IF BothNeeded(test_content, working_content)
             THEN SectionReturns(4, FALSE, printed)
             ELSE SectionLoops(4, test_content.text, printed)

\* lines 162-184: validate_project_dependencies up to its loop
validate_project_dependencies ==
    /\ a_pc = "call" /\ sec = 5
    /\ IF ~os_path_exists(csproj_file)
         THEN SectionReturns(5, FALSE, << Line("missing", 5, "csproj_path", FALSE) >>)
         ELSE LET csproj_content == read_file(csproj_file)
                  printed == ReadError(5, "csproj_path", csproj_file)
              IN  IF Falsy(csproj_content)
                    THEN SectionReturns(5, FALSE, printed)
                    ELSE SectionLoops(5, csproj_content.text, printed)

\* lines 213-230: validate_env_file up to its loop
validate_env_file ==
    /\ a_pc = "call" /\ sec = 6
    /\ IF ~os_path_exists(env_file)
         THEN SectionReturns(6, FALSE, << Line("missing", 6, "env_path", FALSE) >>)
         ELSE LET env_content == read_file(env_file)
                  printed == ReadError(6, "env_path", env_file)
              IN  IF Falsy(env_content)
                    THEN SectionReturns(6, FALSE, printed)
                    ELSE SectionLoops(6, env_content.text, printed)

\* the test of one loop iteration: re.search in the three regex sections,
\* the substring test in the other two
Found(s, key, text) ==
    IF s \in {1, 2, 4} THEN re_search(key, text) ELSE Contains(text, key)

\* mutant: the accumulator is overwritten by each iteration
Accumulate_last(acc, found) == found

\* the accumulator after an iteration: set to False on a miss, else kept
Accumulate(acc, found) == IF found THEN acc ELSE FALSE

\* one iteration of a section's for loop (62-67, 96-101, 153-158, 186-191,
\* 232-237): the item is reported, found or not, and the loop goes on
CheckPattern ==
    /\ a_pc = "loop"
    /\ idx <= Len(SectionList(sec))
    /\ LET key   == SectionList(sec)[idx].re
           found == Found(sec, key, content)
       IN  /\ out' = Append(out, Line("pattern", sec, key, found))
           /\ all_found' = Accumulate(all_found, found)
    /\ idx' = idx + 1
    /\ UNCHANGED <<sec, a_pc, content, validation_results, exit_code>>
    /\ AuditFrame

\* the return after the loop (lines 69, 103, 160, 193, 239)
LoopReturns ==
    /\ a_pc = "loop"
    /\ idx > Len(SectionList(sec))
    /\ SectionReturns(sec, all_found, << >>)

\* mutant: only the three regex sections count
all_passed_regex_sections(results) ==
    \A i \in {1, 2, 4} \cap (1..Len(results)) : results[i][2]

\* lines 263-268: all_passed
all_passed(results) == \A i \in 1..Len(results) : results[i][2]

\* lines 256-284 of main: the summary, the results table, the verdict, sys.exit
main_report ==
    /\ a_pc = "call" /\ sec = 7
    /\ LET table == [i \in 1..Len(validation_results) |->
                        Line("result", i, validation_results[i][1], validation_results[i][2])]
           passed == all_passed(validation_results)
           verdict == IF passed THEN Line("verdict", 7, "All validations passed!", TRUE)
                                ELSE Line("verdict", 7, "Some validations failed", FALSE)
       IN  /\ out' = out \o << Line("summary", 7, "Test Execution Summary", TRUE) >>
                         \o table \o << verdict >>
           /\ exit_code' = IF passed THEN 0 ELSE 1
    /\ a_pc' = "done"
    /\ UNCHANGED <<sec, idx, content, all_found, validation_results>>
    /\ AuditFrame

(***************************************************************************)
(* The image script, test-image-analysis.py.                               *)
(***************************************************************************)
\* file sizes of the model are 0..MaxSize
MaxSize == 102
\* widths and heights of the model lie within MaxDelta of the expected ones
MaxDelta == 1
\* the script is run again at most MaxRuns times
MaxRuns == 1

\* Image.new('RGB', (400, 300)) and the test of line 78
ExpectedWidth  == 400
ExpectedHeight == 300
\* the test of line 74
MinFileSize == 100

ExpectedSize == <<ExpectedWidth, ExpectedHeight>>
NoSize == <<0, 0>>

Dims == {<<w, h>> : w \in (ExpectedWidth - MaxDelta)..(ExpectedWidth + MaxDelta),
                    h \in (ExpectedHeight - MaxDelta)..(ExpectedHeight + MaxDelta)}
        \cup {<<ExpectedHeight, ExpectedWidth>>}

\* A file on disk: openable is FALSE when Image.open, getcolors or getsize
\* raises (not an image, truncated, unreadable); size is os.path.getsize and
\* dims is img.size.  An empty file is no image.
NoImage == [exists |-> FALSE, openable |-> FALSE, size |-> 0, dims |-> NoSize]

DiskImages ==
    {NoImage}
    \cup {[exists |-> TRUE, openable |-> FALSE, size |-> n, dims |-> NoSize] : n \in 0..MaxSize}
    \cup {[exists |-> TRUE, openable |-> TRUE, size |-> n, dims |-> d] :
             n \in 1..MaxSize, d \in Dims}

\* mutant: the size test is off by one
TooSmall_off_by_one(file_size) == file_size < MinFileSize - 1

\* line 74: if file_size < 100
TooSmall(file_size) == file_size < MinFileSize

\* line 78: if img.size != (400, 300)
UnexpectedDimensions(size) == size # ExpectedSize

\* lines 50-87: analyze_test_image
analyze_test_image(f) ==
    IF ~f.exists THEN FALSE
    ELSE IF ~f.openable THEN FALSE
    ELSE IF TooSmall(f.size) THEN FALSE
    ELSE IF UnexpectedDimensions(f.dims) THEN FALSE
    ELSE TRUE

\* lines 14-48: what create_test_image leaves at output_path: a 400x300
\* image whose size in bytes the encoder decides
create_test_image(n) ==
    [exists |-> TRUE, openable |-> TRUE, size |-> n, dims |-> ExpectedSize]

ImageFrame == UNCHANGED <<auditVars, authVars>>

\* line 10: from PIL import Image, ImageDraw, ImageFont
import_modules ==
    /\ i_pc = "import"
    /\ IF pil_available
         THEN i_pc' = "setup" /\ img_exit' = img_exit
         ELSE i_pc' = "done" /\ img_exit' = 1
    /\ UNCHANGED <<pil_available, test_dir_exists, disk_image, analysis,
                   create_calls, runs>>
    /\ ImageFrame

\* lines 105-125 and 146-149: validate_test_setup and main's exit on failure
validate_test_setup ==
    /\ i_pc = "setup"
    /\ IF test_dir_exists
         THEN i_pc' = "image" /\ img_exit' = img_exit
         ELSE i_pc' = "done" /\ img_exit' = 1
    /\ UNCHANGED <<pil_available, test_dir_exists, disk_image, analysis,
                   create_calls, runs>>
    /\ ImageFrame

\* mutant: the image is regenerated on every run
MustCreate_always(f) == TRUE

\* line 154: the guard of the creation
MustCreate(f) == ~f.exists

\* lines 152-157 of main: the image is created unless a file is there
ensure_image ==
    /\ i_pc = "image"
    /\ IF MustCreate(disk_image)
         THEN /\ \E n \in 1..MaxSize : disk_image' = create_test_image(n)
              /\ create_calls' = create_calls + 1
         ELSE UNCHANGED <<disk_image, create_calls>>
    /\ i_pc' = "analyze"
    /\ UNCHANGED <<pil_available, test_dir_exists, analysis, runs, img_exit>>
    /\ ImageFrame

\* lines 159-162 of main
analyze ==
    /\ i_pc = "analyze"
    /\ IF analyze_test_image(disk_image)
         THEN analysis' = "passed" /\ i_pc' = "finish" /\ img_exit' = img_exit
         ELSE analysis' = "failed" /\ i_pc' = "done" /\ img_exit' = 1
    /\ UNCHANGED <<pil_available, test_dir_exists, disk_image, create_calls, runs>>
    /\ ImageFrame

\* lines 164-174 of main: the expected results, the summary, the normal end
finish ==
    /\ i_pc = "finish"
    /\ i_pc' = "done"
    /\ img_exit' = 0
    /\ UNCHANGED <<pil_available, test_dir_exists, disk_image, analysis,
                   create_calls, runs>>
    /\ ImageFrame

\* the script is started again on the same disk
run_again ==
    /\ i_pc = "done"
    /\ runs < MaxRuns
    /\ runs' = runs + 1
    /\ i_pc' = "import"
    /\ analysis' = "none"
    /\ img_exit' = -1
    /\ UNCHANGED <<pil_available, test_dir_exists, disk_image, create_calls>>
    /\ ImageFrame

(***************************************************************************)
(* The authentication probe, debug-auth-test.py.                           *)
(***************************************************************************)
\* line 22 and line 43: the only status taken as success
OkStatus == 200

\* statuses the server may answer with
Statuses == {OkStatus, 201, 401, 403, 500}

\* A JSON value of the "token" key as Python sees it: none is None (the key
\* absent, or null), str a string, int a number, list an array, whose str
\* is what an f-string makes of it.
NoToken      == [type |-> "none", str |-> "", num |-> 0]
StrToken(x)  == [type |-> "str", str |-> x, num |-> 0]
IntToken(n)  == [type |-> "int", str |-> "", num |-> n]
ListToken(x) == [type |-> "list", str |-> x, num |-> 0]

EmptyList == "[]"

TokenStrings == {"", "eyJ.A", "eyJ.B", "eyJ.C"}

\* Bodies of a login response: not JSON at all, a JSON array, or a JSON
\* object without the key, with null, with a string or with a number.
Bodies ==
    {[kind |-> "not_json", token |-> NoToken], [kind |-> "array", token |-> NoToken],
     [kind |-> "object_no_key", token |-> NoToken], [kind |-> "object", token |-> NoToken]}
    \cup {[kind |-> "object", token |-> StrToken(x)] : x \in TokenStrings}
    \cup {[kind |-> "object", token |-> IntToken(n)] : n \in {0, 7}}
    \cup {[kind |-> "object", token |-> ListToken(x)] : x \in {EmptyList, "['eyJ.A']"}}

NoResponse == [status |-> 0, body |-> [kind |-> "none", token |-> NoToken]]

\* Python's "not token"
NotToken(t) ==
    \/ t.type = "none"
    \/ t.type = "str" /\ t.str = ""
    \/ t.type = "int" /\ t.num = 0
    \/ t.type = "list" /\ t.str = EmptyList

\* login_response.json() and login_result.get('token') raise
JsonRaises(body) == body.kind \in {"not_json", "array"}

\* token[:50] raises TypeError on a number
SliceRaises(t) == t.type = "int"

\* line 36: f"Bearer {token}"
Bearer(t) == "Bearer " \o t.str

AuthFrame == UNCHANGED <<auditVars, imageVars>>

\* lines 12-18: the login request goes out
send_login ==
    /\ h_pc = "start"
    /\ posts' = posts + 1
    /\ h_pc' = "await_login"
    /\ h_out' = Append(h_out, "1. Testing login...")
    /\ UNCHANGED <<gets, login_response, token, headers, repo_response>>
    /\ AuthFrame

\* line 18: requests.post returns a response
login_returns ==
    /\ h_pc = "await_login"
    /\ \E st \in Statuses, b \in Bodies : login_response' = [status |-> st, body |-> b]
    /\ h_pc' = "check_login"
    /\ h_out' = Append(h_out, "Login Status")
    /\ UNCHANGED <<posts, gets, token, headers, repo_response>>
    /\ AuthFrame

\* lines 53-56: an exception ends the run
Raised == /\ h_pc' = "done"
          /\ h_out' = Append(h_out, "Error")

\* line 18: requests.post raises (connection refused, ...)
login_raises ==
    /\ h_pc = "await_login"
    /\ Raised
    /\ UNCHANGED <<posts, gets, login_response, token, headers, repo_response>>
    /\ AuthFrame

\* mutant: any 2xx status is taken as a successful login
LoginFailed_non_2xx(response) == response.status >= 300

\* line 22: if login_response.status_code != 200
LoginFailed(response) == response.status # OkStatus

\* lines 22-33: the checks between the two requests
check_login ==
    /\ h_pc = "check_login"
    /\ IF LoginFailed(login_response)
         THEN /\ h_out' = Append(h_out, "LOGIN FAILED!")
              /\ h_pc' = "done"
              /\ token' = token
       ELSE IF JsonRaises(login_response.body)
         THEN Raised /\ token' = token
       ELSE IF NotToken(login_response.body.token)
         THEN /\ h_out' = Append(h_out, "NO TOKEN RECEIVED!")
              /\ h_pc' = "done"
              /\ token' = login_response.body.token
       ELSE IF SliceRaises(login_response.body.token)
         THEN Raised /\ token' = login_response.body.token
       ELSE /\ h_out' = Append(h_out, "Token received")
            /\ h_pc' = "send_repos"
            /\ token' = login_response.body.token
    /\ UNCHANGED <<posts, gets, login_response, headers, repo_response>>
    /\ AuthFrame

\* lines 36-39: the authenticated request goes out
send_repos ==
    /\ h_pc = "send_repos"
    /\ headers' = Bearer(token)
    /\ gets' = gets + 1
    /\ h_pc' = "await_repos"
    /\ h_out' = Append(h_out, "2. Testing authenticated request...")
    /\ UNCHANGED <<posts, login_response, token, repo_response>>
    /\ AuthFrame

\* mutant: any 2xx status is taken as success
Working_any_2xx(status) == status < 300

\* line 43: if repo_response.status_code == 200
Working(status) == status = OkStatus

\* lines 39-46: requests.get returns and the verdict is printed
repos_returns ==
    /\ h_pc = "await_repos"
    /\ \E st \in Statuses :
          /\ repo_response' = st
          /\ h_out' = h_out \o << "Repositories Status",
                                  IF Working(st) THEN "Authentication working!"
                                                 ELSE "Authentication failed!" >>
    /\ h_pc' = "done"
    /\ UNCHANGED <<posts, gets, login_response, token, headers>>
    /\ AuthFrame

\* line 39: requests.get raises
repos_raises ==
    /\ h_pc = "await_repos"
    /\ Raised
    /\ UNCHANGED <<posts, gets, login_response, token, headers, repo_response>>
    /\ AuthFrame

(***************************************************************************)
(* The specifications.                                                     *)
(***************************************************************************)
IdleAudit ==
    /\ test_file = TextFile(TargetKeys \cup {Other})
    /\ working_test = TextFile(TargetKeys \cup {Other})
    /\ image_file = ImageOfSize(SmallWarning)
    /\ csproj_file = TextFile(PackageKeys \cup {Other})
    /\ env_file = TextFile(VarKeys \cup {Other})
    /\ a_pc = "idle"
    /\ sec = 0
    /\ idx = 0
    /\ content = NoContent
    /\ all_found = TRUE
    /\ validation_results = << >>
    /\ out = << >>
    /\ exit_code = -1

IdleImage ==
    /\ pil_available = TRUE
    /\ test_dir_exists = TRUE
    /\ disk_image = NoImage
    /\ i_pc = "idle"
    /\ analysis = "none"
    /\ create_calls = 0
    /\ runs = 0
    /\ img_exit = -1

IdleAuth ==
    /\ h_pc = "idle"
    /\ posts = 0
    /\ gets = 0
    /\ login_response = NoResponse
    /\ token = NoToken
    /\ headers = ""
    /\ repo_response = 0
    /\ h_out = << >>

\* the faults of the files chosen so far
Budget(used) == MaxFaults - used

InitAudit ==
    /\ IdleImage
    /\ IdleAuth
    /\ env_file \in TextFileStates(VarKeys, MaxFaults)
    /\ csproj_file \in TextFileStates(PackageKeys, Budget(TextFaults(env_file, VarKeys)))
    /\ image_file \in ImageFileStates(Budget(TextFaults(env_file, VarKeys)
                                             + TextFaults(csproj_file, PackageKeys)))
    /\ working_test \in TextFileStates(TargetKeys,
                            IF Budget(TextFaults(env_file, VarKeys)
                                      + TextFaults(csproj_file, PackageKeys)
                                      + ImageFaults(image_file)) >= 1 THEN 1 ELSE 0)
    /\ test_file \in {f \in TextFileStates(TargetKeys,
                                Budget(TextFaults(env_file, VarKeys)
                                       + TextFaults(csproj_file, PackageKeys)
                                       + ImageFaults(image_file)
                                       + TextFaults(working_test, TargetKeys))) :
                         WellFormedText(f.text)}
    /\ TextFaults(env_file, VarKeys) + TextFaults(csproj_file, PackageKeys)
         + ImageFaults(image_file) + TextFaults(working_test, TargetKeys)
         + TextFaults(test_file, TargetKeys) <= MaxFaults
    /\ a_pc = "call"
    /\ sec = 1
    /\ idx = 0
    /\ content = NoContent
    /\ all_found = TRUE
    /\ validation_results = << >>
    /\ out = << >>
    /\ exit_code = -1

NextAudit ==
    \/ validate_test_structure
    \/ validate_image_specific_logic
    \/ validate_test_image_exists
    \/ validate_authentication_pattern
    \/ validate_project_dependencies
    \/ validate_env_file
    \/ CheckPattern
    \/ LoopReturns
    \/ main_report

SpecAudit == InitAudit /\ [][NextAudit]_vars


\* the image lies in the test directory
InitImage ==
    /\ IdleAudit
    /\ IdleAuth
    /\ pil_available \in BOOLEAN
    /\ test_dir_exists \in BOOLEAN
    /\ disk_image \in {f \in DiskImages : f.exists => test_dir_exists}
    /\ i_pc = "import"
    /\ analysis = "none"
    /\ create_calls = 0
    /\ runs = 0
    /\ img_exit = -1

NextImage ==
    \/ import_modules
    \/ validate_test_setup
    \/ ensure_image
    \/ analyze
    \/ finish
    \/ run_again

SpecImage == InitImage /\ [][NextImage]_vars

InitAuth ==
    /\ IdleAudit
    /\ IdleImage
    /\ h_pc = "start"
    /\ posts = 0
    /\ gets = 0
    /\ login_response = NoResponse
    /\ token = NoToken
    /\ headers = ""
    /\ repo_response = 0
    /\ h_out = << >>

NextAuth ==
    \/ send_login
    \/ login_returns
    \/ login_raises
    \/ check_login
    \/ send_repos
    \/ repos_returns
    \/ repos_raises

SpecAuth == InitAuth /\ [][NextAuth]_vars

\* Every call of the script returns or raises, and the interpreter runs the
\* script to its end.
FairAuth == SpecAuth /\ WF_vars(NextAuth)

(***************************************************************************)
(* Properties of the auditor (SpecAudit).                                  *)
(***************************************************************************)
Finished == a_pc = "done"

\* section s has returned to main
Returned(s) == Len(validation_results) >= s

\* the result main recorded for section s
Result(s) == validation_results[s][2]

\* the per-pattern lines section s printed, in order
PatternReports(s) ==
    LET OfSection(l) == l.kind = "pattern" /\ l.sec = s
    IN  SelectSeq(out, OfSection)

VerdictPrinted(ok) == \E i \in 1..Len(out) : out[i].kind = "verdict" /\ out[i].ok = ok

Readable(f) == f.exists /\ f.readable

TargetMatchesAll  == Readable(test_file) /\ TargetKeys \subseteq test_file.text
ReferenceUsable   == Readable(working_test) /\ working_test.text # {}
ImagePresent      == image_file.exists
CsprojValid       == Readable(csproj_file) /\ PackageKeys \subseteq csproj_file.text
EnvValid          == Readable(env_file) /\ VarKeys \subseteq env_file.text

\* the files section s reads, and the file its loop scans
Needs(s) ==
    CASE s = 1 -> {test_file, working_test}
      [] s = 2 -> {test_file}
      [] s = 3 -> {}
      [] s = 4 -> {test_file, working_test}
      [] s = 5 -> {csproj_file}
      [] s = 6 -> {env_file}

Scanned(s) ==
    CASE s \in {1, 2, 4} -> test_file
      [] s = 5 -> csproj_file
      [] s = 6 -> env_file

LoopSections == {1, 2, 4, 5, 6}

\* C1 as stated: the auditor reports "all passed" and exits 0 if and only
\* if every listed regular expression matches in the target file, whatever
\* the state of the other inputs.
C1_VerdictByTargetAlone ==
    Finished => /\ (exit_code = 0) <=> TargetMatchesAll
                /\ VerdictPrinted(TRUE) <=> TargetMatchesAll

\* C1 as amended: the auditor reports "all passed" and exits 0 if and only
\* if every listed regular expression matches in the target file and the
\* other inputs are valid too: the reference file is readable and not
\* empty, the test image exists, the csproj names the four packages and
\* .env names the two variables.  Otherwise it reports failure and exits 1.
C1_Verdict ==
    Finished =>
        LET good == /\ TargetMatchesAll /\ ReferenceUsable /\ ImagePresent
                    /\ CsprojValid /\ EnvValid
        IN  /\ (exit_code = 0) <=> good
            /\ (exit_code = 1) <=> ~good
            /\ VerdictPrinted(TRUE) <=> good
            /\ VerdictPrinted(FALSE) <=> ~good

C1_Witness ==
    /\ Finished /\ exit_code = 0 /\ VerdictPrinted(TRUE) /\ TargetMatchesAll

\* C2: each of .env, test-image.png and the csproj, when it is the only
\* input missing, makes its own section fail, leaves the other two of the
\* three sections passing, and makes the process exit with code 1; each of
\* the three section results depends on its own file only.
C2_MissingFile ==
    Finished =>
        /\ Result(3) <=> ImagePresent
        /\ Result(5) <=> CsprojValid
        /\ Result(6) <=> EnvValid
        /\ (~env_file.exists /\ ImagePresent /\ CsprojValid)
              => ~Result(6) /\ Result(3) /\ Result(5) /\ exit_code = 1
        /\ (~image_file.exists /\ EnvValid /\ CsprojValid)
              => ~Result(3) /\ Result(6) /\ Result(5) /\ exit_code = 1
        /\ (~csproj_file.exists /\ EnvValid /\ ImagePresent)
              => ~Result(5) /\ Result(6) /\ Result(3) /\ exit_code = 1

C2_Witness ==
    /\ Finished /\ ~image_file.exists /\ EnvValid /\ CsprojValid
    /\ TargetMatchesAll /\ ReferenceUsable
    /\ ~Result(3) /\ Result(5) /\ Result(6) /\ exit_code = 1

\* C5: the patterns are looked for in the reference file as well as in the
\* target file, so a section that compares with the reference passes only
\* if the reference file contains its patterns too.
C5_ReferenceChecked ==
    Finished =>
        /\ Result(1) => StructureKeys \subseteq working_test.text
        /\ Result(4) => AuthKeys \subseteq working_test.text

\* C6: aggregation never short-circuits.  A section that reaches its loop
\* reports every item of its list, in order, each with the outcome of its
\* own test, and returns the conjunction of the outcomes; main runs the six
\* sections in the fixed order whatever the earlier results, and exits 0
\* exactly when the six results are all true, 1 otherwise.
C6_NoShortCircuit ==
    /\ \A s \in LoopSections :
          (Returned(s) /\ PatternReports(s) # << >>) =>
             LET r == PatternReports(s)
                 l == SectionList(s)
             IN  /\ Len(r) = Len(l)
                 /\ \A i \in 1..Len(l) :
                       /\ r[i].item = l[i].re
                       /\ r[i].ok <=> (l[i].re \in Scanned(s).text)
                 /\ Result(s) <=> \A i \in 1..Len(r) : r[i].ok
    /\ Len(validation_results) <= 6
    /\ \A s \in 1..Len(validation_results) : validation_results[s][1] = SectionName(s)
    /\ Finished =>
          /\ Len(validation_results) = 6
          /\ (exit_code = 0) <=> \A s \in 1..6 : Result(s)
          /\ (exit_code = 1) <=> \E s \in 1..6 : ~Result(s)

C6_Witness ==
    /\ Finished
    /\ ~Result(1) /\ Result(6)
    /\ Len(PatternReports(1)) = 13
    /\ ~PatternReports(1)[1].ok /\ PatternReports(1)[13].ok
    /\ exit_code = 1

\* C7: a read failure short-circuits the check.  A section that needs a
\* file read_file fails on returns failure without evaluating or reporting
\* any pattern, and the auditor's verdict is failure, exit code 1.
C7_ReadFailure ==
    \A s \in LoopSections : \A f \in Needs(s) :
        ~Readable(f) =>
            /\ Returned(s) => ~Result(s)
            /\ PatternReports(s) = << >>
            /\ Finished => (exit_code = 1 /\ VerdictPrinted(FALSE))

C7_Witness ==
    /\ Finished
    /\ test_file.exists /\ ~test_file.readable
    /\ ~Result(1) /\ ~Result(2) /\ ~Result(4)
    /\ exit_code = 1

\* C10: the Test Structure and Authentication sections pass only if the
\* reference file is readable and not empty, so a missing, unreadable or
\* empty reference file makes the auditor exit 1 even when the target
\* matches every pattern; and a file whose content is the empty string has
\* the outcome of a file that could not be read: its section fails without
\* evaluating a pattern.
C10_EmptyIsUnread ==
    /\ Returned(1) /\ Result(1) => ReferenceUsable
    /\ Returned(4) /\ Result(4) => ReferenceUsable
    /\ Finished /\ ~ReferenceUsable => ~Result(1) /\ ~Result(4) /\ exit_code = 1
    /\ \A s \in LoopSections : \A f \in Needs(s) :
          (~Readable(f) \/ f.text = {}) =>
              /\ Returned(s) => ~Result(s)
              /\ PatternReports(s) = << >>

C10_Witness ==
    /\ Finished
    /\ working_test = TextFile({})
    /\ TargetMatchesAll
    /\ ~Result(1) /\ Result(2) /\ ~Result(4)
    /\ exit_code = 1

(***************************************************************************)
(* Properties of the image script (SpecImage).                             *)
(***************************************************************************)
Analyzed == analysis # "none"

\* C3 as stated: whenever analyze_test_image reports success the file
\* exists, is strictly larger than 100 bytes and measures exactly 400x300;
\* for every size from 0 up to and including 100 bytes, and for every
\* other dimension pair, it reports failure.
C3_StrictlyAbove100 ==
    /\ analysis = "passed" =>
          /\ disk_image.exists
          /\ disk_image.size > 100
          /\ disk_image.dims = <<400, 300>>
    /\ (Analyzed /\ (disk_image.size <= 100 \/ disk_image.dims # <<400, 300>>))
          => analysis = "failed"

\* C3 as amended: whenever analyze_test_image reports success the file
\* exists, its size is at least 100 bytes and it measures exactly 400x300;
\* for every size from 0 up to and including 99 bytes, and for every other
\* dimension pair, it reports failure.  A file of exactly 100 bytes passes.
C3_AtLeast100 ==
    /\ analysis = "passed" =>
          /\ disk_image.exists
          /\ disk_image.size >= 100
          /\ disk_image.dims = <<400, 300>>
    /\ (Analyzed /\ (~disk_image.exists \/ disk_image.size <= 99
                     \/ disk_image.dims # <<400, 300>>))
          => analysis = "failed"
    /\ (Analyzed /\ disk_image.exists /\ disk_image.openable
          /\ disk_image.size >= 100 /\ disk_image.dims = <<400, 300>>)
          => analysis = "passed"

C3_Witness ==
    /\ analysis = "passed"
    /\ disk_image.size = 100
    /\ disk_image.dims = <<400, 300>>

\* a file that analyze_test_image rejects for its size or its dimensions
FailsAnalysis(f) == f.size < 100 \/ f.dims # <<400, 300>>

\* C9: create_test_image is called only when no file exists at the image
\* path; a file that exists is never overwritten or modified by any run;
\* the analysis is made on the file that is there, so a file that was there
\* before and fails the analysis makes every run exit with code 1 without
\* being regenerated.
C9_ExistingImageKept ==
    /\ [][ /\ create_calls' # create_calls => ~disk_image.exists
           /\ disk_image.exists => disk_image' = disk_image ]_vars
    /\ [](  (i_pc = "done" /\ create_calls = 0 /\ disk_image.exists
               /\ FailsAnalysis(disk_image))
            => (img_exit = 1 /\ analysis # "passed") )

C9_Witness ==
    /\ i_pc = "done" /\ runs = 1
    /\ create_calls = 0
    /\ disk_image.exists /\ disk_image.openable
    /\ disk_image.size = 99 /\ disk_image.dims = <<400, 300>>
    /\ analysis = "failed"
    /\ img_exit = 1

(***************************************************************************)
(* Properties of the authentication probe (SpecAuth, FairAuth).            *)
(***************************************************************************)
LoginAnswered == login_response # NoResponse

Printed(line) == \E i \in 1..Len(h_out) : h_out[i] = line

\* the login returned 200 with a token that is there and not empty
LoginGaveToken ==
    /\ login_response.status = 200
    /\ login_response.body.kind = "object"
    /\ login_response.body.token.type \in {"str", "list"}
    /\ login_response.body.token.str \notin {"", "[]"}

\* C4: GET /repositories is sent only after POST /auth/login returned 200
\* with a non-empty token, and carries exactly that token as the Bearer
\* credential; if the login status is not 200, or the token is absent or
\* empty, the probe returns early and sends no further request.
C4_GetOnlyAfterLogin ==
    /\ gets > 0 =>
          /\ posts = 1
          /\ LoginGaveToken
          /\ token = login_response.body.token
          /\ headers = "Bearer " \o login_response.body.token.str
    /\ (LoginAnswered /\ ~LoginGaveToken) =>
          /\ gets = 0
          /\ posts = 1
          /\ headers = ""
          /\ h_pc \in {"check_login", "done"}

C4_Witness ==
    /\ gets = 1
    /\ login_response.status = 200
    /\ headers = "Bearer eyJ.A"

=============================================================================
